---- MODULE Spec2Model ----
(***************************************************************************)
(* Model of proxy_generator_k/app.py: the proxy probe (test_proxy), the    *)
(* credential synthesizer (build_soax_proxy) and the selection loop of the *)
(* /generate handler (generate).                                           *)
(*                                                                         *)
(* Representation of Python values:                                        *)
(*   - a dict is a record holding exactly the keys that are present;       *)
(*   - None / JSON null in a slot is the empty sequence << >>, a present   *)
(*     value v is <<v>> (Some(v));                                         *)
(*   - a text whose characters the code inspects (ISP and AS names) is a   *)
(*     TLA+ string together with its character sequence Chars(s);          *)
(*   - a connection string is the sequence of its fragments, the           *)
(*     separators ":" and "@" being fragments of their own.                *)
(***************************************************************************)
EXTENDS Integers, Sequences, FiniteSets, TLC

VARIABLES
    pc,                 \* position of the request handler generate()
    config,             \* get_env_config(): which settings are present
    request,            \* the JSON body of the request
    location,           \* geocode_address() result, None or Some(dict)
    all_proxies,        \* list of synthesized credentials
    batch_start,        \* loop variable of the wave loop
    futures,            \* state of the future of every credential
    finished,           \* as_completed's list of finished futures, in completion order
    pending,            \* as_completed's set of futures not yet yielded
    total_tested,
    last_fail_reasons,
    last_result,
    ret,                \* value of the return expression, held while the with-block exits
    response,           \* what the handler has returned, None before
    accepted_order,     \* history: the credentials whose probe completed Accepted, in completion order
    submitted,          \* history: the credentials handed to executor.submit, in call order
    probe_in,           \* arguments of a stand-alone call of test_proxy or build_soax_proxy
    probe_out           \* its return value (for test_proxy with the outbound calls), None before

gvars == <<pc, config, request, location, all_proxies, batch_start, futures,
           finished, pending, total_tested, last_fail_reasons, last_result,
           ret, response, accepted_order, submitted>>
pvars == <<probe_in, probe_out>>
vars == <<gvars, pvars>>

----------------------------------------------------------------------------
(* Bounds of the model *)

\* largest max_attempts a request asks for
MaxAttempts == 6

----------------------------------------------------------------------------
(* Python values *)

None == << >>
Some(v) == <<v>>

\* d.get(key): None when the key is absent
dict_get(d, key) == IF key \in DOMAIN d THEN Some(d[key]) ELSE None

\* d.get(key, default)
dict_get_default(d, key, default) == IF key \in DOMAIN d THEN d[key] ELSE default

\* mutant of or_text: a missing text becomes the empty text
or_text_blank(x, default) == IF x = None THEN "" ELSE x[1]

\* (x or default) for a text slot: None and '' are falsy
or_text(x, default) == IF x = None \/ x[1] = "" THEN default ELSE x[1]

\* (x or default) for a number slot: None and 0 are falsy
or_number(x, default) == IF x = None \/ x[1] = 0 THEN default ELSE x[1]

\* characters of the texts the model uses
Chars(s) ==
    IF s = "Unknown" THEN <<"U", "n", "k", "n", "o", "w", "n">>
    ELSE IF s = "Comcast Cable" THEN
        <<"C", "o", "m", "c", "a", "s", "t", " ", "C", "a", "b", "l", "e">>
    ELSE IF s = "Verizon Wireless" THEN
        <<"V", "e", "r", "i", "z", "o", "n", " ", "W", "i", "r", "e", "l", "e", "s", "s">>
    ELSE IF s = "RCN Telecom" THEN
        <<"R", "C", "N", " ", "T", "e", "l", "e", "c", "o", "m">>
    ELSE IF s = "Cricket" THEN <<"C", "r", "i", "c", "k", "e", "t">>
    ELSE IF s = "AS7922 Comcast" THEN
        <<"A", "S", "7", "9", "2", "2", " ", "C", "o", "m", "c", "a", "s", "t">>
    ELSE IF s = "AS14593 STARLINK" THEN
        <<"A", "S", "1", "4", "5", "9", "3", " ", "S", "T", "A", "R", "L", "I", "N", "K">>
    ELSE IF s = "AS21928 T-Mobile" THEN
        <<"A", "S", "2", "1", "9", "2", "8", " ", "T", "-", "M", "o", "b", "i", "l", "e">>
    ELSE IF s = "South Beach" THEN
        <<"S", "o", "u", "t", "h", " ", "B", "e", "a", "c", "h">>
    ELSE IF s = "Florida" THEN <<"F", "l", "o", "r", "i", "d", "a">>
    ELSE IF s = "Miami" THEN <<"M", "i", "a", "m", "i">>
    ELSE IF s = "us" THEN <<"u", "s">>
    ELSE IF s = "US" THEN <<"U", "S">>
    ELSE << >>

ToLower ==
    ("A" :> "a") @@ ("B" :> "b") @@ ("C" :> "c") @@ ("D" :> "d") @@ ("E" :> "e") @@
    ("F" :> "f") @@ ("G" :> "g") @@ ("H" :> "h") @@ ("I" :> "i") @@ ("J" :> "j") @@
    ("K" :> "k") @@ ("L" :> "l") @@ ("M" :> "m") @@ ("N" :> "n") @@ ("O" :> "o") @@
    ("P" :> "p") @@ ("Q" :> "q") @@ ("R" :> "r") @@ ("S" :> "s") @@ ("T" :> "t") @@
    ("U" :> "u") @@ ("V" :> "v") @@ ("W" :> "w") @@ ("X" :> "x") @@ ("Y" :> "y") @@
    ("Z" :> "z")

\* str.lower() on a character sequence
lower(cs) == [i \in 1..Len(cs) |-> IF cs[i] \in DOMAIN ToLower THEN ToLower[cs[i]] ELSE cs[i]]

\* the Python test (sub in cs) on character sequences
contains(cs, sub) ==
    \E i \in 0..(Len(cs) - Len(sub)) : \A m \in 1..Len(sub) : cs[i + m] = sub[m]

----------------------------------------------------------------------------
(* haversine_distance: the great-circle distance in miles.  Coordinates of  *)
(* the model lie on a grid whose unit is one mile, where the distance is    *)
(* the sum of the offsets along the two axes.                               *)

Abs(x) == IF x < 0 THEN -x ELSE x

haversine_distance(lat1, lon1, lat2, lon2) == Abs(lat2 - lat1) + Abs(lon2 - lon1)

\* f'{distance:.1f}' of a whole number of miles
format_1f(distance) == ToString(distance) \o ".0"

----------------------------------------------------------------------------
(* test_proxy *)

mobile_keywords ==
    { <<"m", "o", "b", "i", "l", "e">>,
      <<"w", "i", "r", "e", "l", "e", "s", "s">>,
      <<"c", "e", "l", "l", "u", "l", "a", "r">>,
      <<"l", "t", "e">>,
      <<"5", "g">>,
      <<"4", "g">>,
      <<"3", "g">> }

mobile_carriers ==
    { <<"a", "t", "&", "t">>,
      <<"a", "t", "t", " ">>,
      <<"v", "e", "r", "i", "z", "o", "n">>,
      <<"t", "-", "m", "o", "b", "i", "l", "e">>,
      <<"t", "m", "o", "b", "i", "l", "e">>,
      <<"s", "p", "r", "i", "n", "t">>,
      <<"c", "r", "i", "c", "k", "e", "t">>,
      <<"b", "o", "o", "s", "t">>,
      <<"m", "e", "t", "r", "o", " ", "p", "c", "s">>,
      <<"m", "e", "t", "r", "o", "p", "c", "s">>,
      <<"u", "s", " ", "c", "e", "l", "l", "u", "l", "a", "r">>,
      <<"u", "s", "c", "e", "l", "l", "u", "l", "a", "r">> }

flagged_isps ==
    { <<"r", "c", "n">>,
      <<"s", "t", "a", "r", "l", "i", "n", "k">> }

\* fragments that consist of decimal digits only
DigitFragments == {"5000", "8080"}

\* mutant of re_match: every string is taken
re_match_any(proxy_string) == TRUE

\* re.match(r'^(.+):(.+)@(.+):(\d+)$', proxy_string), on fragments
re_match(proxy_string) ==
    \E k \in 6..(Len(proxy_string) - 1) :
        /\ proxy_string[k] = ":"
        /\ \A n \in (k + 1)..Len(proxy_string) : proxy_string[n] \in DigitFragments
        /\ \E j \in 4..(k - 2) :
              /\ proxy_string[j] = "@"
              /\ \E i \in 2..(j - 2) : proxy_string[i] = ":"

\* an Error verdict
error_result(message) == [success |-> FALSE, error |-> message]

\* mutant of get_proxy_ip: the fallback service is asked in every probe
get_proxy_ip_always_fallback(net) ==
    IF ~net.ipify.raises
    THEN [raised |-> FALSE, proxy_ip |-> net.ipify.ip, calls |-> <<"ipify", "httpbin">>]
    ELSE IF ~net.httpbin.raises
    THEN [raised |-> FALSE, proxy_ip |-> Some(net.httpbin.origin[1]),
          calls |-> <<"ipify", "httpbin">>]
    ELSE [raised |-> TRUE, proxy_ip |-> None, calls |-> <<"ipify", "httpbin">>]

\* mutant of get_proxy_ip: there is no fallback service
get_proxy_ip_no_fallback(net) ==
    IF ~net.ipify.raises
    THEN [raised |-> FALSE, proxy_ip |-> net.ipify.ip, calls |-> <<"ipify">>]
    ELSE [raised |-> TRUE, proxy_ip |-> None, calls |-> <<"ipify">>]

\* mutant of get_proxy_ip: an empty answer of ipify sends the probe to the
\* fallback service too
get_proxy_ip_fallback_on_empty(net) ==
    IF ~net.ipify.raises /\ net.ipify.ip \notin {None, Some("")}
    THEN [raised |-> FALSE, proxy_ip |-> net.ipify.ip, calls |-> <<"ipify">>]
    ELSE IF ~net.httpbin.raises
    THEN [raised |-> FALSE, proxy_ip |-> Some(net.httpbin.origin[1]),
          calls |-> <<"ipify", "httpbin">>]
    ELSE [raised |-> TRUE, proxy_ip |-> None, calls |-> <<"ipify", "httpbin">>]

\* STEP 1: the exit IP through the proxy, ipify first, httpbin when ipify raised
get_proxy_ip(net) ==
    IF ~net.ipify.raises
    THEN [raised |-> FALSE, proxy_ip |-> net.ipify.ip, calls |-> <<"ipify">>]
    ELSE IF ~net.httpbin.raises
    THEN [raised |-> FALSE,
          \* origin.split(',')[0].strip(): origin is the list of its comma-separated parts
          proxy_ip |-> Some(net.httpbin.origin[1]),
          calls |-> <<"ipify", "httpbin">>]
    ELSE [raised |-> TRUE, proxy_ip |-> None, calls |-> <<"ipify", "httpbin">>]

\* mutant of distance_exceeds: the maximum itself is already too far
distance_reaches(distance, max_distance) == distance >= max_distance

\* mutant of distance_exceeds: one mile of tolerance beyond the maximum
distance_exceeds_by_a_mile(distance, max_distance) == distance > max_distance + 1

\* the distance check of line 217
distance_exceeds(distance, max_distance) == distance > max_distance

\* the ISP and AS names that the upstream answers of the model carry
Names ==
    {"Unknown", "Comcast Cable", "Verizon Wireless", "RCN Telecom", "Cricket",
     "AS7922 Comcast", "AS14593 STARLINK", "AS21928 T-Mobile"}

\* lines 224-229, name by name: the names whose lower-cased text holds a
\* mobile keyword or a carrier
mobile_names ==
    {s \in Names :
        \/ \E kw \in mobile_keywords : contains(lower(Chars(s)), kw)
        \/ \E carrier \in mobile_carriers : contains(lower(Chars(s)), carrier)}

\* lines 224-225 and 237, name by name: the names whose lower-cased text
\* holds a flagged name
flagged_names == {s \in Names : \E f \in flagged_isps : contains(lower(Chars(s)), f)}

\* mutant of is_mobile: only the provider's mobile flag counts
is_mobile_flag_only(ipapi_mobile, isp, as_name) == ipapi_mobile

\* is_mobile of lines 227-229
is_mobile(ipapi_mobile, isp, as_name) ==
    ipapi_mobile \/ isp \in mobile_names \/ as_name \in mobile_names

\* is_flagged of line 237
is_flagged(isp, as_name) == isp \in flagged_names \/ as_name \in flagged_names

\* mutant of apply_policy: every failing check adds its reason
apply_policy_all_reasons(proxy_ip, d, target_lat, target_lon, max_distance) ==
    LET distance == haversine_distance(target_lat, target_lon, d.lat, d.lon)
        reasons ==
            (IF distance_exceeds(distance, max_distance)
             THEN <<"Distance " \o format_1f(distance) \o " miles > "
                    \o ToString(max_distance) \o " max">>
             ELSE << >>)
            \o (IF is_mobile(d.ipapi_mobile, d.isp, d.as_name)
                THEN <<"Mobile ISP: " \o d.isp>> ELSE << >>)
            \o (IF is_flagged(d.isp, d.as_name)
                THEN <<"Flagged ISP: " \o d.isp>> ELSE << >>)
    IN  [success |-> TRUE, passed |-> (reasons = << >>), fail_reasons |-> reasons,
         ip |-> proxy_ip, city |-> d.city, region |-> d.region,
         country |-> d.country, lat |-> d.lat, lon |-> d.lon,
         distance |-> distance, isp |-> d.isp, org |-> d.org,
         as_name |-> d.as_name]

\* STEP 3 and the checks: lines 196-245; d is the provider's answer with defaults applied
apply_policy(proxy_ip, d, target_lat, target_lon, max_distance) ==
    LET distance == haversine_distance(target_lat, target_lon, d.lat, d.lon)
        result == [success |-> TRUE, passed |-> FALSE, fail_reasons |-> << >>,
                   ip |-> proxy_ip, city |-> d.city, region |-> d.region,
                   country |-> d.country, lat |-> d.lat, lon |-> d.lon,
                   distance |-> distance, isp |-> d.isp, org |-> d.org,
                   as_name |-> d.as_name]
    IN  IF distance_exceeds(distance, max_distance)
        THEN [result EXCEPT !.fail_reasons =
                 Append(@, "Distance " \o format_1f(distance) \o " miles > "
                           \o ToString(max_distance) \o " max")]
        ELSE IF is_mobile(d.ipapi_mobile, d.isp, d.as_name)
        THEN [result EXCEPT !.fail_reasons = Append(@, "Mobile ISP: " \o d.isp)]
        ELSE IF is_flagged(d.isp, d.as_name)
        THEN [result EXCEPT !.fail_reasons = Append(@, "Flagged ISP: " \o d.isp)]
        ELSE [result EXCEPT !.passed = TRUE]

\* lines 183-191: the provider's fields with their defaults
ipapi_fields(ipapi_data) ==
    [lat |-> or_number(ipapi_data.lat, 0),
     lon |-> or_number(ipapi_data.lon, 0),
     city |-> or_text(ipapi_data.city, "Unknown"),
     region |-> or_text(ipapi_data.regionName, "Unknown"),
     country |-> or_text(ipapi_data.country, "Unknown"),
     isp |-> or_text(ipapi_data.isp, "Unknown"),
     org |-> or_text(ipapi_data.org, "Unknown"),
     as_name |-> or_text(ipapi_data.as, "Unknown"),
     ipapi_mobile |-> (ipapi_data.mobile = Some(TRUE))]

\* mutant of ipapi_failed: the provider's status is not looked at
ipapi_failed_never(ipapi_data) == FALSE

\* line 180: the provider answered with the failure status
ipapi_failed(ipapi_data) == ipapi_data.status = Some("fail")

\* test_proxy with the outbound calls it made; net holds what each upstream
\* service answers to this probe
test_proxy_run(proxy_string, target_lat, target_lon, net, max_distance) ==
    IF ~re_match(proxy_string)
    THEN [result |-> error_result("Invalid proxy format"), calls |-> << >>]
    ELSE
    LET step1 == get_proxy_ip(net) IN
    IF step1.raised
    THEN [result |-> error_result("Connection timeout"), calls |-> step1.calls]
    ELSE IF step1.proxy_ip = None \/ step1.proxy_ip[1] = ""
    THEN [result |-> error_result("Could not get proxy IP"), calls |-> step1.calls]
    ELSE
    LET proxy_ip == step1.proxy_ip[1]
        calls == Append(step1.calls, "ip-api")
    IN
    IF net.ipapi.raises
    THEN [result |-> error_result("ip-api failed: " \o net.ipapi.exception), calls |-> calls]
    ELSE IF ipapi_failed(net.ipapi.data)
    THEN [result |-> error_result("ip-api error: "
                        \o (IF net.ipapi.data.message = None THEN "None"
                            ELSE net.ipapi.data.message[1])),
          calls |-> calls]
    ELSE [result |-> apply_policy(proxy_ip, ipapi_fields(net.ipapi.data),
                                  target_lat, target_lon, max_distance),
          calls |-> calls]

test_proxy(proxy_string, target_lat, target_lon, net, max_distance) ==
    test_proxy_run(proxy_string, target_lat, target_lon, net, max_distance).result

\* the three kinds of verdict
IsError(result) == ~result.success
IsRejected(result) == result.success /\ ~result.passed
IsAccepted(result) == result.success /\ result.passed

----------------------------------------------------------------------------
(* build_soax_proxy *)

\* the text of a character sequence
RECURSIVE text_of(_)
text_of(cs) == IF cs = << >> THEN "" ELSE cs[1] \o text_of(Tail(cs))

\* mutant of replace: the text is left as it is
replace_nothing(cs, old, new) == cs

\* str.replace(old, new) for a single character old
replace(cs, old, new) == [i \in 1..Len(cs) |-> IF cs[i] = old THEN new ELSE cs[i]]

\* '-'.join(parts)
RECURSIVE join_dash(_)
join_dash(parts) ==
    IF parts = << >> THEN ""
    ELSE IF Len(parts) = 1 THEN parts[1]
    ELSE parts[1] \o "-" \o join_dash(Tail(parts))

\* generate_session_id(): the n-th draw of the request; the draws of one
\* request are taken to be distinct
generate_session_id(n) == "sid" \o ToString(n)

build_soax_proxy(package_id, password, country, region, city, session_length, session_id) ==
    LET username_parts ==
            <<"package-" \o package_id>>
            \o (IF country # "" THEN <<"country-" \o text_of(lower(Chars(country)))>> ELSE << >>)
            \o (IF region # ""
                THEN <<"region-" \o text_of(replace(lower(Chars(region)), " ", "+"))>>
                ELSE << >>)
            \o (IF city # ""
                THEN <<"city-" \o text_of(replace(lower(Chars(city)), " ", "+"))>>
                ELSE << >>)
            \o <<"sessionid-" \o session_id>>
            \o <<"sessionlength-" \o ToString(session_length)>>
        username == join_dash(username_parts)
    IN  [provider |-> "SOAX",
         full_string |-> <<username, ":", password, "@", "proxy.soax.com", ":", "5000">>,
         server |-> "proxy.soax.com",
         port |-> "5000",
         username |-> username,
         password |-> password,
         session_id |-> session_id]

----------------------------------------------------------------------------
(* generate: the /generate request handler *)

\* mutant of batch_size: waves of six
batch_size_six == 5 + 1

\* mutant of batch_size: waves of four
batch_size_four == 5 - 1

\* width of a wave
batch_size == 5

\* what the geocoder can answer: None (no match, or the call failed) or a place
GeocodeResults ==
    { None,
      Some([lat |-> 2, lon |-> 1, place_name |-> "Miami, Florida, United States",
            city |-> "Miami", region |-> "Florida", country |-> "United States",
            country_code |-> "us"]) }

\* what the upstream services can answer to the probe of credential i: its
\* session gets an exit IP of its own; the probe times out or the provider
\* refuses the lookup, or the exit is too far or on a mobile network, or
\* the exit is acceptable
NetKinds(i) ==
    { IF i % 2 = 1 THEN "timeout" ELSE "ipapi_fail",
      IF i % 3 = 0 THEN "mobile" ELSE "far",
      "ok" }

NetFor(i, kind) ==
    LET ip == "203.0.113." \o ToString(i)
        fields(lat, isp) ==
            [status |-> Some("success"), message |-> None,
             lat |-> Some(lat), lon |-> Some(1),
             city |-> Some("Miami"), regionName |-> Some("Florida"),
             country |-> Some("United States"), isp |-> Some(isp),
             org |-> None, as |-> Some("AS7922 Comcast"), mobile |-> Some(FALSE)]
        failed == [fields(0, "") EXCEPT !.status = Some("fail"),
                                        !.message = Some("invalid query")]
    IN  [ipify |-> [raises |-> (kind = "timeout"), ip |-> Some(ip)],
         httpbin |-> [raises |-> TRUE, origin |-> <<"">>],
         ipapi |-> [raises |-> FALSE, exception |-> "",
                    data |-> CASE kind = "far" -> fields(8 + (i % 2), "Comcast Cable")
                               [] kind = "mobile" -> fields(3, "Verizon Wireless")
                               [] kind = "ok" -> fields(2 + (i % 3), "Comcast Cable")
                               [] OTHER -> failed]]

\* test_single_proxy(proxy): lines 1130-1138
test_single_proxy(proxy, net) ==
    <<proxy, test_proxy(proxy.full_string, location[1].lat, location[1].lon,
                        net, request.max_distance)>>

\* mutant of batch_indices: a wave starts at the last credential of the one before
batch_indices_overlapping(start) ==
    {i \in 1..Len(all_proxies) : start <= i /\ i <= start + batch_size}

\* the wave starting at batch_start: all_proxies[batch_start:batch_start + batch_size]
batch_indices(start) ==
    {i \in 1..Len(all_proxies) : start < i /\ i <= start + batch_size}

\* the dict comprehension of line 1163 submits the wave in list order
RECURSIVE ascending(_)
ascending(S) ==
    IF S = {} THEN << >>
    ELSE LET m == CHOOSE i \in S : \A j \in S : i <= j
         IN  <<m>> \o ascending(S \ {m})

Init ==
    /\ pc = "start"
    /\ config \in [ipapi_key : {"", "k"}, soax_package_id : {"", "p1"},
                   soax_password : {"", "pw"}]
    /\ request \in [target_address : {"", "1 Ocean Drive"}, mapbox_key : {"", "mk"},
                    max_distance : {5}, max_attempts : 0..MaxAttempts]
    /\ location = None
    /\ all_proxies = << >>
    /\ batch_start = 0
    /\ futures = << >>
    /\ finished = << >>
    /\ pending = {}
    /\ total_tested = 0
    /\ last_fail_reasons = << >>
    /\ last_result = None
    /\ ret = None
    /\ response = None
    /\ accepted_order = << >>
    /\ submitted = << >>
    /\ probe_in = None
    /\ probe_out = None

\* mutant of Validate: the provider credentials are not checked
ValidateKeyOnly ==
    /\ pc = "start"
    /\ IF config.ipapi_key = ""
       THEN response' = Some([error |-> "ip-api.com API key not configured"]) /\ pc' = "done"
       ELSE IF request.mapbox_key = ""
       THEN response' = Some([error |-> "Mapbox API key required"]) /\ pc' = "done"
       ELSE IF request.target_address = ""
       THEN response' = Some([error |-> "Target address required"]) /\ pc' = "done"
       ELSE response' = response /\ pc' = "geocode"
    /\ UNCHANGED <<config, request, location, all_proxies, batch_start, futures,
                   finished, pending, total_tested, last_fail_reasons, last_result,
                   ret, accepted_order, submitted, pvars>>

\* lines 1106-1118: the configuration and request checks
Validate ==
    /\ pc = "start"
    /\ IF config.ipapi_key = ""
       THEN response' = Some([error |-> "ip-api.com API key not configured"]) /\ pc' = "done"
       ELSE IF config.soax_package_id = "" \/ config.soax_password = ""
       THEN response' = Some([error |-> "SOAX credentials not configured"]) /\ pc' = "done"
       ELSE IF request.mapbox_key = ""
       THEN response' = Some([error |-> "Mapbox API key required"]) /\ pc' = "done"
       ELSE IF request.target_address = ""
       THEN response' = Some([error |-> "Target address required"]) /\ pc' = "done"
       ELSE response' = response /\ pc' = "geocode"
    /\ UNCHANGED <<config, request, location, all_proxies, batch_start, futures,
                   finished, pending, total_tested, last_fail_reasons, last_result,
                   ret, accepted_order, submitted, pvars>>

\* mutant of Geocode: the answer of the geocoder is not checked
GeocodeUnchecked ==
    /\ pc = "geocode"
    /\ \E loc \in GeocodeResults : location' = loc
    /\ pc' = "build"
    /\ UNCHANGED <<config, request, all_proxies, batch_start, futures,
                   finished, pending, total_tested, last_fail_reasons, last_result,
                   ret, response, accepted_order, submitted, pvars>>

\* lines 1121-1123: geocode the address
Geocode ==
    /\ pc = "geocode"
    /\ \E loc \in GeocodeResults :
        /\ location' = loc
        /\ IF loc = None
           THEN /\ response' = Some([error |->
                        "Could not geocode address. Please check the address format."])
                /\ pc' = "done"
           ELSE response' = response /\ pc' = "build"
    /\ UNCHANGED <<config, request, all_proxies, batch_start, futures,
                   finished, pending, total_tested, last_fail_reasons, last_result,
                   ret, accepted_order, submitted, pvars>>

\* mutant of BuildProxies: only the credentials of the first wave are
\* synthesized before the loop
BuildProxiesFirstWave ==
    /\ pc = "build"
    /\ all_proxies' =
          [i \in 1..(IF request.max_attempts < batch_size THEN request.max_attempts
                     ELSE batch_size) |->
              build_soax_proxy(config.soax_package_id, config.soax_password, "us",
                               dict_get_default(location[1], "region", ""),
                               dict_get_default(location[1], "city", ""),
                               3600, generate_session_id(i))]
    /\ futures' = [i \in DOMAIN all_proxies' |-> "NOT_SUBMITTED"]
    /\ batch_start' = 0
    /\ last_fail_reasons' = << >>
    /\ last_result' = None
    /\ total_tested' = 0
    /\ pc' = "for_batch"
    /\ UNCHANGED <<config, request, location, finished, pending, ret, response,
                   accepted_order, submitted, pvars>>

\* lines 1126-1157: synthesize the batch and initialise the loop
BuildProxies ==
    /\ pc = "build"
    /\ all_proxies' =
          [i \in 1..request.max_attempts |->
              build_soax_proxy(config.soax_package_id, config.soax_password, "us",
                               dict_get_default(location[1], "region", ""),
                               dict_get_default(location[1], "city", ""),
                               3600, generate_session_id(i))]
    /\ futures' = [i \in 1..request.max_attempts |-> "NOT_SUBMITTED"]
    /\ batch_start' = 0
    /\ last_fail_reasons' = << >>
    /\ last_result' = None
    /\ total_tested' = 0
    /\ pc' = "for_batch"
    /\ UNCHANGED <<config, request, location, finished, pending, ret, response,
                   accepted_order, submitted, pvars>>

\* mutant of more_waves: a last wave that is not full is dropped
more_waves_full_only(start) == start + batch_size <= Len(all_proxies)

\* line 1159: range(0, len(all_proxies), batch_size) has a wave at start
more_waves(start) == start < Len(all_proxies)

\* lines 1159-1163: the next wave is submitted to a fresh executor
SubmitWave ==
    /\ pc = "for_batch"
    /\ more_waves(batch_start)
    /\ futures' = [i \in DOMAIN futures |->
                      IF i \in batch_indices(batch_start) THEN "RUNNING" ELSE futures[i]]
    /\ pending' = batch_indices(batch_start)
    /\ finished' = << >>
    /\ submitted' = submitted \o ascending(batch_indices(batch_start))
    /\ pc' = "as_completed"
    /\ UNCHANGED <<config, request, location, all_proxies, batch_start, total_tested,
                   last_fail_reasons, last_result, ret, response, accepted_order, pvars>>

\* mutant of Complete: the worker thread stores its verdict in last_result
CompleteWritingLast(i) ==
    /\ i \in DOMAIN futures
    /\ futures[i] = "RUNNING"
    /\ \E net \in {NetFor(i, kind) : kind \in NetKinds(i)} :
        /\ finished' = Append(finished,
                [future |-> i, value |-> test_single_proxy(all_proxies[i], net)])
        /\ accepted_order' = IF IsAccepted(finished'[Len(finished')].value[2])
                             THEN Append(accepted_order, i) ELSE accepted_order
        /\ last_result' = Some(finished'[Len(finished')].value[2])
    /\ futures' = [futures EXCEPT ![i] = "FINISHED"]
    /\ UNCHANGED <<pc, config, request, location, all_proxies, batch_start, pending,
                   total_tested, last_fail_reasons, ret, response, submitted, pvars>>

\* a worker thread finishes test_single_proxy for credential i: the future
\* holds (proxy, result) and joins the finished list
Complete(i) ==
    /\ i \in DOMAIN futures
    /\ futures[i] = "RUNNING"
    /\ \E net \in {NetFor(i, kind) : kind \in NetKinds(i)} :
        /\ finished' = Append(finished,
                [future |-> i, value |-> test_single_proxy(all_proxies[i], net)])
        /\ accepted_order' = IF IsAccepted(finished'[Len(finished')].value[2])
                             THEN Append(accepted_order, i) ELSE accepted_order
    /\ futures' = [futures EXCEPT ![i] = "FINISHED"]
    /\ UNCHANGED <<pc, config, request, location, all_proxies, batch_start, pending,
                   total_tested, last_fail_reasons, last_result, ret, response, submitted, pvars>>

\* mutant of next_completed: the finished future that was submitted first
next_completed_by_submission(fin) ==
    CHOOSE f \in {fin[n] : n \in 1..Len(fin)} :
        \A n \in 1..Len(fin) : f.future <= fin[n].future

\* the future as_completed yields next: the one that finished first
next_completed(fin) == fin[1]

\* mutant of returned_proxy: the variable proxy of the enclosing scope, which
\* the synthesis loop of lines 1142-1151 left at the last credential
returned_proxy_enclosing(outcome) == all_proxies[Len(all_proxies)]

\* the credential the success outcome carries: the one future.result() returned
returned_proxy(outcome) == outcome[1]

\* the success outcome of lines 1179-1200
success_outcome(proxy, result, attempts) ==
    [success |-> TRUE, provider |-> "SOAX",
     full_string |-> proxy.full_string, server |-> proxy.server, port |-> proxy.port,
     username |-> proxy.username, password |-> proxy.password,
     session_id |-> proxy.session_id,
     ip |-> result.ip, city |-> result.city, region |-> result.region,
     country |-> result.country, lat |-> dict_get(result, "lat"),
     lon |-> dict_get(result, "lon"), distance |-> result.distance,
     isp |-> result.isp, as_name |-> dict_get_default(result, "as_name", "Unknown"),
     attempts_used |-> attempts,
     target_address |-> request.target_address,
     target_location |-> location[1].place_name]

\* mutant of last_result_after: an Error verdict leaves the last located
\* verdict in place
last_result_after_located(result) == IF result.success THEN Some(result) ELSE last_result

\* last_result after a verdict: line 1169
last_result_after(result) == Some(result)

\* mutant of fail_reasons_after: an Error verdict leaves the reasons of the
\* verdict before it in place
fail_reasons_kept_on_error(result) ==
    IF ~result.success
    THEN last_fail_reasons
    ELSE dict_get_default(result, "fail_reasons", << >>)

\* mutant of fail_reasons_after: the reasons pile up over the probes
fail_reasons_accumulated(result) ==
    last_fail_reasons \o
        (IF ~result.success
         THEN <<dict_get_default(result, "error", "Connection failed")>>
         ELSE dict_get_default(result, "fail_reasons", << >>))

\* mutant of fail_reasons_after: an Error is reported by the generic text
fail_reasons_generic(result) ==
    IF ~result.success
    THEN <<"Connection failed">>
    ELSE dict_get_default(result, "fail_reasons", << >>)

\* last_fail_reasons after a verdict: lines 1171-1175
fail_reasons_after(result) ==
    IF ~result.success
    THEN <<dict_get_default(result, "error", "Connection failed")>>
    ELSE dict_get_default(result, "fail_reasons", << >>)

\* whether the loop body returns on this verdict: lines 1171-1177
returns_on(result) == result.success /\ result.passed

\* mutant of after_accept: the outcome is recorded but the loop goes on
after_accept_continue == "as_completed"

\* where the handler goes on an Accepted verdict: the return statement of
\* line 1179 leaves the loops through the with-block's exit
after_accept == "exit_with"

\* lines 1165-1200: one iteration of the loop over as_completed(futures)
Observe ==
    /\ pc = "as_completed"
    /\ finished # << >>
    /\ LET done == next_completed(finished)
           outcome == done.value          \* future.result()
           proxy == returned_proxy(outcome)
           result == outcome[2]
       IN  /\ total_tested' = total_tested + 1
           /\ last_result' = last_result_after(result)
           /\ last_fail_reasons' = fail_reasons_after(result)
           /\ finished' = SelectSeq(finished, LAMBDA f : f.future # done.future)
           /\ pending' = pending \ {done.future}
           /\ IF returns_on(result)
              THEN /\ ret' = Some(success_outcome(proxy, result, total_tested'))
                   /\ pc' = after_accept
              ELSE ret' = ret /\ pc' = pc
    /\ UNCHANGED <<config, request, location, all_proxies, batch_start, futures,
                   response, accepted_order, submitted, pvars>>

\* mutant of executor_exit_ready: the executor's shutdown never returns
executor_exit_never == FALSE

\* the executor's with-block ends: __exit__ is shutdown(wait=True), which
\* joins the worker threads
executor_exit_ready == \A i \in DOMAIN futures : futures[i] # "RUNNING"

\* mutant of WaveDone: the next wave does not wait for the verdicts of this one
WaveDoneEarly ==
    /\ pc = "as_completed"
    /\ batch_start' = batch_start + batch_size
    /\ pc' = "for_batch"
    /\ UNCHANGED <<config, request, location, all_proxies, futures, finished, pending,
                   total_tested, last_fail_reasons, last_result, ret, response,
                   accepted_order, submitted, pvars>>

\* line 1165 exhausted, line 1162 left normally: on to the next wave
WaveDone ==
    /\ pc = "as_completed"
    /\ pending = {}
    /\ executor_exit_ready
    /\ batch_start' = batch_start + batch_size
    /\ pc' = "for_batch"
    /\ UNCHANGED <<config, request, location, all_proxies, futures, finished, pending,
                   total_tested, last_fail_reasons, last_result, ret, response,
                   accepted_order, submitted, pvars>>

\* mutant of ReturnSuccess: the siblings that finished meanwhile are counted
ReturnSuccessCountingFinished ==
    /\ pc = "exit_with"
    /\ executor_exit_ready
    /\ response' = Some([ret[1] EXCEPT !.attempts_used = total_tested + Len(finished)])
    /\ pc' = "done"
    /\ UNCHANGED <<config, request, location, all_proxies, batch_start, futures, finished,
                   pending, total_tested, last_fail_reasons, last_result, ret,
                   accepted_order, submitted, pvars>>

\* the return of line 1179 leaves the with-block of line 1162
ReturnSuccess ==
    /\ pc = "exit_with"
    /\ executor_exit_ready
    /\ response' = ret
    /\ pc' = "done"
    /\ UNCHANGED <<config, request, location, all_proxies, batch_start, futures, finished,
                   pending, total_tested, last_fail_reasons, last_result, ret,
                   accepted_order, submitted, pvars>>

\* mutant of failure_outcome: the snapshot is taken without the guard on
\* last_result, so it is a record of nulls when no verdict was observed
failure_outcome_unguarded_snapshot ==
    [error |-> "Could not find a proxy within " \o ToString(request.max_distance)
               \o " miles after " \o ToString(total_tested) \o " attempts.",
     attempts |-> total_tested,
     last_fail_reasons |-> last_fail_reasons,
     last_result |->
        IF last_result # None
        THEN Some([ip |-> dict_get(last_result[1], "ip"),
                   city |-> dict_get(last_result[1], "city"),
                   region |-> dict_get(last_result[1], "region"),
                   isp |-> dict_get(last_result[1], "isp"),
                   distance |-> dict_get(last_result[1], "distance")])
        ELSE Some([ip |-> None, city |-> None, region |-> None, isp |-> None,
                   distance |-> None])]

\* the failure outcome of lines 1205-1216
failure_outcome ==
    [error |-> "Could not find a proxy within " \o ToString(request.max_distance)
               \o " miles after " \o ToString(total_tested) \o " attempts.",
     attempts |-> total_tested,
     last_fail_reasons |-> last_fail_reasons,
     last_result |->
        IF last_result # None
        THEN Some([ip |-> dict_get(last_result[1], "ip"),
                   city |-> dict_get(last_result[1], "city"),
                   region |-> dict_get(last_result[1], "region"),
                   isp |-> dict_get(last_result[1], "isp"),
                   distance |-> dict_get(last_result[1], "distance")])
        ELSE None]

\* lines 1159, 1204-1216: no wave is left
ReturnFailure ==
    /\ pc = "for_batch"
    /\ ~more_waves(batch_start)
    /\ response' = Some(failure_outcome)
    /\ pc' = "done"
    /\ UNCHANGED <<config, request, location, all_proxies, batch_start, futures, finished,
                   pending, total_tested, last_fail_reasons, last_result, ret,
                   accepted_order, submitted, pvars>>

Next ==
    \/ Validate
    \/ Geocode
    \/ BuildProxies
    \/ SubmitWave
    \/ \E i \in 1..(MaxAttempts + batch_size) : Complete(i)
    \/ Observe
    \/ WaveDone
    \/ ReturnSuccess
    \/ ReturnFailure

Spec == Init /\ [][Next]_vars

\* the steps of the request thread
HandlerStep ==
    \/ Validate \/ Geocode \/ BuildProxies \/ SubmitWave
    \/ Observe \/ WaveDone \/ ReturnSuccess \/ ReturnFailure

\* the request thread is scheduled as long as it can take a step, and every
\* probe terminates: requests.get is called with a timeout (lines 160, 164,
\* 177) and test_proxy returns a verdict on every path
FairSpec ==
    /\ Spec
    /\ WF_vars(HandlerStep)
    /\ \A i \in 1..(MaxAttempts + batch_size) : WF_vars(Complete(i))

----------------------------------------------------------------------------
(* test_proxy on its own: one call on arguments and upstream answers drawn  *)
(* from the catalogues below                                                *)

ProbeProxyStrings ==
    { build_soax_proxy("p1", "pw", "us", "Florida", "Miami", 3600,
                       generate_session_id(1)).full_string,
      <<"user", ":", "pw", "@", "proxy.soax.com">>,
      <<"user", ":", "pw", "@", "proxy.soax.com", ":", "http">> }

ProbeIpify ==
    { [raises |-> TRUE, ip |-> None],
      [raises |-> FALSE, ip |-> None],
      [raises |-> FALSE, ip |-> Some("")],
      [raises |-> FALSE, ip |-> Some("203.0.113.9")] }

ProbeHttpbin ==
    { [raises |-> TRUE, origin |-> <<"">>],
      [raises |-> FALSE, origin |-> <<"">>],
      [raises |-> FALSE, origin |-> <<"198.51.100.4", "10.0.0.1">>] }

ProbeIpapiData ==
    [status : {Some("success")}, message : {None},
     lat : {None, Some(2), Some(7), Some(8), Some(18)},
     lon : {None, Some(1)},
     city : {Some("Miami")}, regionName : {None}, country : {Some("United States")},
     isp : {None, Some("Comcast Cable"), Some("Verizon Wireless"), Some("RCN Telecom"),
            Some("Cricket")},
     org : {None},
     as : {None, Some("AS7922 Comcast"), Some("AS14593 STARLINK"),
           Some("AS21928 T-Mobile")},
     mobile : {None, Some(TRUE), Some(FALSE)}]
    \cup
    [status : {Some("fail")}, message : {None, Some("invalid query")},
     lat : {None}, lon : {None}, city : {None}, regionName : {None}, country : {None},
     isp : {None}, org : {None}, as : {None}, mobile : {None}]

ProbeIpapi ==
    { [raises |-> TRUE, exception |-> "read timed out", data |-> d] :
          d \in {x \in ProbeIpapiData : x.status = Some("fail") /\ x.message = None} }
    \cup
    { [raises |-> FALSE, exception |-> "", data |-> d] : d \in ProbeIpapiData }

ProbeInputs ==
    [proxy_string : ProbeProxyStrings, target_lat : {2}, target_lon : {1},
     max_distance : {5, 15},
     net : [ipify : ProbeIpify, httpbin : ProbeHttpbin, ipapi : ProbeIpapi]]

InitProbe ==
    /\ pc = "probe"
    /\ config = [ipapi_key |-> "k", soax_package_id |-> "p1", soax_password |-> "pw"]
    /\ request = [target_address |-> "", mapbox_key |-> "", max_distance |-> 5,
                  max_attempts |-> 0]
    /\ location = None
    /\ all_proxies = << >>
    /\ batch_start = 0
    /\ futures = << >>
    /\ finished = << >>
    /\ pending = {}
    /\ total_tested = 0
    /\ last_fail_reasons = << >>
    /\ last_result = None
    /\ ret = None
    /\ response = None
    /\ accepted_order = << >>
    /\ submitted = << >>
    /\ probe_in \in {Some(x) : x \in ProbeInputs}
    /\ probe_out = None

\* test_proxy(proxy_string, target_lat, target_lon, ipapi_key, max_distance) is called
ProbeCall ==
    /\ pc = "probe"
    /\ probe_out = None
    /\ probe_out' = Some(test_proxy_run(probe_in[1].proxy_string, probe_in[1].target_lat,
                                        probe_in[1].target_lon, probe_in[1].net,
                                        probe_in[1].max_distance))
    /\ UNCHANGED <<gvars, probe_in>>

NextProbe == ProbeCall

SpecProbe == InitProbe /\ [][NextProbe]_vars

----------------------------------------------------------------------------
(* build_soax_proxy on its own: one call on arguments drawn from the        *)
(* catalogue below; an absent region or city (None) and the empty text are  *)
(* one case, the code tests them with `if region:`                          *)

BuildInputs ==
    [package_id : {"p1", "p2"}, password : {"pw", "s3cret"},
     country : {"us", "US", ""},
     region : {"", "Florida", "South Beach"},
     city : {"", "Miami", "South Beach"},
     session_length : {3600, 600},
     session_id : {generate_session_id(n) : n \in 1..2}]

InitBuild ==
    /\ pc = "synth"
    /\ config = [ipapi_key |-> "k", soax_package_id |-> "p1", soax_password |-> "pw"]
    /\ request = [target_address |-> "", mapbox_key |-> "", max_distance |-> 5,
                  max_attempts |-> 0]
    /\ location = None
    /\ all_proxies = << >>
    /\ batch_start = 0
    /\ futures = << >>
    /\ finished = << >>
    /\ pending = {}
    /\ total_tested = 0
    /\ last_fail_reasons = << >>
    /\ last_result = None
    /\ ret = None
    /\ response = None
    /\ accepted_order = << >>
    /\ submitted = << >>
    /\ probe_in \in {Some(x) : x \in BuildInputs}
    /\ probe_out = None

\* build_soax_proxy(package_id, password, country, region, city, session_length) is called
BuildCall ==
    /\ pc = "synth"
    /\ probe_out = None
    /\ probe_out' = Some(build_soax_proxy(probe_in[1].package_id, probe_in[1].password,
                                          probe_in[1].country, probe_in[1].region,
                                          probe_in[1].city, probe_in[1].session_length,
                                          probe_in[1].session_id))
    /\ UNCHANGED <<gvars, probe_in>>

NextBuild == BuildCall

SpecBuild == InitBuild /\ [][NextBuild]_vars

----------------------------------------------------------------------------
(* Properties of the selection loop, checked under Spec *)

\* the handler has returned a success outcome
Succeeded == pc = "done" /\ response # None /\ "success" \in DOMAIN response[1]

\* the handler has returned the batch-exhausted failure outcome
Exhausted == pc = "done" /\ response # None /\ "attempts" \in DOMAIN response[1]

\* the credentials that have been dispatched to a probe
Dispatched == {i \in DOMAIN futures : futures[i] # "NOT_SUBMITTED"}

\* the 1-based wave of credential i, for waves of 5
WaveOf(i) == ((i - 1) \div 5) + 1

\* the credential of the success outcome, by its session id
ReturnedIndex ==
    CHOOSE i \in DOMAIN all_proxies : all_proxies[i].session_id = response[1].session_id

\* the success outcome carries the location/ISP/distance fields of verdict v
CarriesVerdict(out, v) ==
    /\ out.ip = v.ip /\ out.city = v.city /\ out.region = v.region
    /\ out.country = v.country /\ out.lat = Some(v.lat) /\ out.lon = Some(v.lon)
    /\ out.distance = v.distance /\ out.isp = v.isp /\ out.as_name = v.as_name

\* the success outcome carries exactly credential c
CarriesCredential(out, c) ==
    /\ out.full_string = c.full_string /\ out.username = c.username
    /\ out.password = c.password /\ out.session_id = c.session_id
    /\ out.server = c.server /\ out.port = c.port

\* C1: a success outcome carries a credential whose own probe completed
\* Accepted, together with the ip, location, ISP and distance of the verdict
\* that probe produced; never the verdict of another probe, never a
\* credential whose probe ended in Error or Rejected.
C1_CredentialWithItsOwnVerdict ==
    Succeeded =>
        \E n \in 1..Len(accepted_order) :
            LET i == accepted_order[n] IN
            /\ CarriesCredential(response[1], all_proxies[i])
            /\ \E v \in {test_single_proxy(all_proxies[i], NetFor(i, kind))[2] :
                              kind \in NetKinds(i)} :
                  IsAccepted(v) /\ CarriesVerdict(response[1], v)

\* C1 witness: a success outcome, while a sibling of the returned credential
\* completed with an Error or Rejected verdict of its own
C1_Witness ==
    /\ Succeeded
    /\ Len(accepted_order) = 1
    /\ \E i \in Dispatched : WaveOf(i) = WaveOf(ReturnedIndex) /\ i # ReturnedIndex

\* C2: the batch-exhausted failure outcome is returned only after all
\* max_attempts candidates were dispatched, completed and observed, none of
\* them Accepted; the reported attempts equal the full batch size.
C2_ExhaustedOnlyAfterWholeBatch ==
    Exhausted =>
        /\ Len(all_proxies) = request.max_attempts
        /\ \A i \in 1..request.max_attempts : futures[i] = "FINISHED"
        /\ finished = << >> /\ pending = {}
        /\ accepted_order = << >>
        /\ response[1].attempts = request.max_attempts

\* C2 witness: exhaustion of a batch of two waves
C2_Witness == Exhausted /\ response[1].attempts > 5

\* C3: once an Accepted verdict has been observed no further probe is
\* dispatched, and the outcome of the request is fixed: one credential.
C3_NoDispatchAfterAccept ==
    [][ /\ (ret # None => /\ ret' = ret
                          /\ \A i \in DOMAIN futures :
                                futures[i] = "NOT_SUBMITTED" => futures'[i] = "NOT_SUBMITTED")
        /\ (response # None => response' = response) ]_vars

\* C3 witness: a success outcome with a later wave that was never dispatched
C3_Witness == Succeeded /\ \E i \in DOMAIN futures : futures[i] = "NOT_SUBMITTED"

\* C4: once an Accepted verdict has been observed the outcome can be
\* returned at once, whether or not sibling probes are still in flight.
C4_ReturnNotBlockedBySiblings ==
    (ret # None /\ response = None) => ENABLED ReturnSuccess

\* C5: the returned credential is the one whose probe was the first of the
\* request to complete Accepted; it lies in the earliest wave with an Accept.
C5_FirstAcceptedInCompletionOrder ==
    Succeeded =>
        /\ CarriesCredential(response[1], all_proxies[accepted_order[1]])
        /\ \A n \in 1..Len(accepted_order) :
              WaveOf(accepted_order[1]) <= WaveOf(accepted_order[n])

\* C5 witness: the returned credential was submitted after a sibling that
\* completed Accepted too
C5_Witness ==
    /\ Succeeded
    /\ \E n \in 2..Len(accepted_order) : accepted_order[n] < ReturnedIndex

\* C6: attempts_used is the number of verdicts observed up to and including
\* the Accept, and lies within the wave w of the returned credential:
\* 5(w-1)+1 <= attempts_used <= min(5w, N).
C6_AttemptsWithinAcceptWave ==
    Succeeded =>
        LET w == WaveOf(ReturnedIndex)
            N == request.max_attempts
            used == response[1].attempts_used
        IN  /\ used = Cardinality(Dispatched) - Cardinality(pending)
            /\ 5 * (w - 1) + 1 <= used
            /\ used <= (IF 5 * w < N THEN 5 * w ELSE N)

\* C6 witness: the Accept is observed in the second wave
C6_Witness == Succeeded /\ WaveOf(ReturnedIndex) = 2

\* C7: on exhaustion after a last-observed Rejected verdict, last_fail_reasons
\* is exactly the fail_reasons list of that verdict.
C7_LastRejectedReasons ==
    (Exhausted /\ last_result # None /\ IsRejected(last_result[1])) =>
        /\ response[1].last_fail_reasons = last_result[1].fail_reasons
        /\ Len(response[1].last_fail_reasons) = 1

\* C7 witness: exhaustion of a batch of several probes, the last observed
\* verdict a Rejected
C7_Witness ==
    /\ Exhausted /\ response[1].attempts >= 2
    /\ last_result # None /\ IsRejected(last_result[1])

\* C8 as stated: on exhaustion after a last-observed Error verdict,
\* last_fail_reasons is the single generic reason "connection failed".
C8_GenericReason ==
    (Exhausted /\ last_result # None /\ IsError(last_result[1])) =>
        response[1].last_fail_reasons \in {<<"connection failed">>, <<"Connection failed">>}

\* C8 amended: on exhaustion after a last-observed Error verdict,
\* last_fail_reasons is the single message of that Error verdict.
C8_ErrorMessageReported ==
    (Exhausted /\ last_result # None /\ IsError(last_result[1])) =>
        /\ response[1].last_fail_reasons = <<last_result[1].error>>
        /\ last_result[1].error \in {"Connection timeout", "ip-api error: invalid query"}

\* C8 witness: exhaustion after a last-observed Error verdict
C8_Witness == Exhausted /\ last_result # None /\ IsError(last_result[1])

----------------------------------------------------------------------------
(* Properties of test_proxy, checked under SpecProbe.  The conditions are   *)
(* stated on the arguments and the upstream answers of the call.            *)

\* the call has returned
Probed == probe_in # None /\ probe_out # None

\* an exit IP was discovered: by the primary service, or by the fallback
\* after the primary call failed
ExitIpDiscovered(x) ==
    /\ re_match(x.proxy_string)
    /\ \/ ~x.net.ipify.raises /\ x.net.ipify.ip \notin {None, Some("")}
       \/ x.net.ipify.raises /\ ~x.net.httpbin.raises /\ x.net.httpbin.origin[1] # ""

\* the IP-intelligence lookup answered, and not with a failure status
LookupSucceeded(x) == ~x.net.ipapi.raises /\ x.net.ipapi.data.status # Some("fail")

\* the provider's text, or "Unknown" when it is missing, null or empty
TextOrUnknown(t) == IF t \in {None, Some("")} THEN "Unknown" ELSE t[1]

\* the provider's coordinate, or 0 when it is missing or null
NumberOrZero(n) == IF n = None THEN 0 ELSE n[1]

\* distance between the target and the coordinates the provider reported
ReportedDistance(x) ==
    haversine_distance(x.target_lat, x.target_lon,
                       NumberOrZero(x.net.ipapi.data.lat),
                       NumberOrZero(x.net.ipapi.data.lon))

TooFar(x) == ~(ReportedDistance(x) <= x.max_distance)

\* name n, lower-cased, contains one of the words
NameHasAny(n, words) ==
    \E w \in words : \E k \in 1..Len(Chars(n)) :
        /\ k + Len(w) - 1 <= Len(Chars(n))
        /\ SubSeq(lower(Chars(n)), k, k + Len(w) - 1) = w

\* the network is classified mobile
Mobile(x) ==
    \/ x.net.ipapi.data.mobile = Some(TRUE)
    \/ NameHasAny(TextOrUnknown(x.net.ipapi.data.isp), mobile_keywords \cup mobile_carriers)
    \/ NameHasAny(TextOrUnknown(x.net.ipapi.data.as), mobile_keywords \cup mobile_carriers)

\* the ISP or the AS name is deny-listed
DenyListed(x) ==
    \/ NameHasAny(TextOrUnknown(x.net.ipapi.data.isp), flagged_isps)
    \/ NameHasAny(TextOrUnknown(x.net.ipapi.data.as), flagged_isps)

\* C9: test_proxy returns Accepted if and only if the exit IP was
\* discovered, the lookup succeeded, the distance does not exceed
\* max_distance, the network is not mobile and no name is deny-listed; an
\* Accepted verdict has no fail reasons.
C9_AcceptedIffAllChecksPass ==
    Probed =>
        LET x == probe_in[1]
            r == probe_out[1].result
        IN  /\ IsAccepted(r) <=>
                  /\ ExitIpDiscovered(x) /\ LookupSucceeded(x)
                  /\ ~TooFar(x) /\ ~Mobile(x) /\ ~DenyListed(x)
            /\ IsAccepted(r) => r.fail_reasons = << >>

\* C9 witness: an Accepted verdict at exactly the maximum distance, the exit
\* IP found by the fallback service
C9_Witness ==
    /\ Probed /\ IsAccepted(probe_out[1].result)
    /\ ReportedDistance(probe_in[1]) = probe_in[1].max_distance
    /\ probe_in[1].net.ipify.raises

\* the reason each check records
DistanceReason(x) ==
    "Distance " \o ToString(ReportedDistance(x)) \o ".0 miles > "
    \o ToString(x.max_distance) \o " max"
MobileReason(x) == "Mobile ISP: " \o TextOrUnknown(x.net.ipapi.data.isp)
FlaggedReason(x) == "Flagged ISP: " \o TextOrUnknown(x.net.ipapi.data.isp)

\* C10: a Rejected verdict carries exactly one fail reason, that of the
\* first failing check in the order distance, mobile, flagged ISP.
C10_FirstFailingCheckOnly ==
    (Probed /\ IsRejected(probe_out[1].result)) =>
        LET x == probe_in[1]
            r == probe_out[1].result
        IN  /\ TooFar(x) \/ Mobile(x) \/ DenyListed(x)
            /\ r.fail_reasons =
                  <<IF TooFar(x) THEN DistanceReason(x)
                    ELSE IF Mobile(x) THEN MobileReason(x)
                    ELSE FlaggedReason(x)>>

\* C10 witness: a probe that is too far, mobile and deny-listed at once
C10_Witness ==
    /\ Probed /\ IsRejected(probe_out[1].result)
    /\ TooFar(probe_in[1]) /\ Mobile(probe_in[1]) /\ DenyListed(probe_in[1])

\* C10 witness of the second order: mobile and deny-listed, within range
C10_WitnessMobileAndDenyListed ==
    /\ Probed /\ IsRejected(probe_out[1].result)
    /\ ~TooFar(probe_in[1]) /\ Mobile(probe_in[1]) /\ DenyListed(probe_in[1])

\* the ISP name matches the mobile classification
IspNamedMobile(x) ==
    NameHasAny(TextOrUnknown(x.net.ipapi.data.isp), mobile_keywords \cup mobile_carriers)

\* C11 as stated: a probe whose ISP name matches the mobile classification is
\* Rejected with the mobile reason for every computed distance, including
\* distances greater than the maximum distance.
C11_MobileReasonAtEveryDistance ==
    (Probed /\ ExitIpDiscovered(probe_in[1]) /\ LookupSucceeded(probe_in[1])
        /\ IspNamedMobile(probe_in[1])) =>
        /\ IsRejected(probe_out[1].result)
        /\ probe_out[1].result.fail_reasons = <<MobileReason(probe_in[1])>>

\* C11 amended: a probe whose ISP name matches the mobile classification is
\* Rejected at every computed distance; its single reason is the mobile
\* reason when the distance does not exceed the maximum, and the distance
\* reason when it does.
C11_MobileRejectedAtEveryDistance ==
    (Probed /\ ExitIpDiscovered(probe_in[1]) /\ LookupSucceeded(probe_in[1])
        /\ IspNamedMobile(probe_in[1])) =>
        /\ IsRejected(probe_out[1].result)
        /\ probe_out[1].result.fail_reasons =
              <<IF TooFar(probe_in[1]) THEN DistanceReason(probe_in[1])
                ELSE MobileReason(probe_in[1])>>

\* C11 witness: ISP "Verizon Wireless", not flagged mobile by the provider,
\* within the maximum distance, Rejected
C11_Witness ==
    /\ Probed /\ IsRejected(probe_out[1].result)
    /\ probe_in[1].net.ipapi.data.isp = Some("Verizon Wireless")
    /\ probe_in[1].net.ipapi.data.mobile = Some(FALSE)
    /\ ~TooFar(probe_in[1])

\* the case C11 as stated gets wrong: ISP "Verizon Wireless" beyond the
\* maximum distance
C11_WitnessTooFar ==
    /\ Probed /\ IsRejected(probe_out[1].result)
    /\ probe_in[1].net.ipapi.data.isp = Some("Verizon Wireless")
    /\ TooFar(probe_in[1])

\* C12: the distance check rejects only when the computed distance strictly
\* exceeds max_distance: at a distance equal to max_distance (or less) the
\* verdict is decided by the network checks alone and never carries the
\* distance reason; at any greater distance the verdict is Rejected with the
\* distance reason, whatever the ISP classification.
C12_StrictlyGreaterOnly ==
    (Probed /\ ExitIpDiscovered(probe_in[1]) /\ LookupSucceeded(probe_in[1])) =>
        LET x == probe_in[1]
            r == probe_out[1].result
        IN  /\ ReportedDistance(x) <= x.max_distance =>
                /\ IsAccepted(r) <=> (~Mobile(x) /\ ~DenyListed(x))
                /\ \A n \in 1..Len(r.fail_reasons) : r.fail_reasons[n] # DistanceReason(x)
            /\ ReportedDistance(x) > x.max_distance =>
                /\ IsRejected(r)
                /\ r.fail_reasons = <<DistanceReason(x)>>

\* C12 witness: a mobile network at exactly the maximum distance, Rejected
\* for the network and not for the distance
C12_Witness ==
    /\ Probed /\ IsRejected(probe_out[1].result)
    /\ ReportedDistance(probe_in[1]) = probe_in[1].max_distance
    /\ Mobile(probe_in[1])
    /\ probe_out[1].result.fail_reasons = <<MobileReason(probe_in[1])>>

\* the other half of C12: one mile beyond the maximum, a deny-listed network
C12_WitnessOneMileBeyond ==
    /\ Probed /\ IsRejected(probe_out[1].result)
    /\ ReportedDistance(probe_in[1]) = probe_in[1].max_distance + 1
    /\ DenyListed(probe_in[1])

\* the provider answered the lookup with the failure status
ProviderReportedFailure(x) ==
    /\ ExitIpDiscovered(x)
    /\ ~x.net.ipapi.raises
    /\ x.net.ipapi.data.status = Some("fail")

\* C17: when the IP-intelligence provider answers with a failure status the
\* verdict is an Error whose message carries the provider's message; the
\* verdict has no distance and no policy fields, and is neither Rejected nor
\* Accepted.
C17_ProviderFailureIsError ==
    (Probed /\ ProviderReportedFailure(probe_in[1])) =>
        LET x == probe_in[1]
            r == probe_out[1].result
        IN  /\ IsError(r) /\ ~IsRejected(r) /\ ~IsAccepted(r)
            /\ DOMAIN r = {"success", "error"}
            /\ r.error = "ip-api error: "
                   \o (IF x.net.ipapi.data.message = None THEN "None"
                       ELSE x.net.ipapi.data.message[1])
            /\ probe_out[1].calls[Len(probe_out[1].calls)] = "ip-api"

\* C17 witness: the provider refused the lookup with a message
C17_Witness ==
    /\ Probed /\ ProviderReportedFailure(probe_in[1])
    /\ probe_in[1].net.ipapi.data.message = Some("invalid query")
    /\ probe_out[1].result.error = "ip-api error: invalid query"


----------------------------------------------------------------------------
(* Properties of the request handler before and around the loop, checked   *)
(* under Spec                                                               *)

\* a required configuration value is absent
ConfigurationMissing ==
    config.ipapi_key = "" \/ config.soax_package_id = "" \/ config.soax_password = ""

\* the request got past the checks of lines 1106-1118
PassedValidation ==
    /\ ~ConfigurationMissing
    /\ request.mapbox_key # "" /\ request.target_address # ""

\* the probes in flight
InFlight == {i \in DOMAIN futures : futures[i] = "RUNNING"}

\* C13: if the IP-intelligence key, the provider package id or the provider
\* password is absent, the handler returns a configuration error and does
\* nothing else: the geocoder is never called, no credential is synthesized
\* and no probe is dispatched.
C13_ConfigurationErrorFirst ==
    ConfigurationMissing =>
        /\ pc \in {"start", "done"}
        /\ pc = "done" =>
              /\ response # None
              /\ DOMAIN response[1] = {"error"}
              /\ response[1].error =
                    (IF config.ipapi_key = "" THEN "ip-api.com API key not configured"
                     ELSE "SOAX credentials not configured")
        /\ location = None
        /\ all_proxies = << >>
        /\ submitted = << >> /\ Dispatched = {}

\* C13 witness: the configuration error for an absent provider password, in
\* a request that is complete otherwise
C13_Witness ==
    /\ pc = "done"
    /\ config.ipapi_key # "" /\ config.soax_package_id # "" /\ config.soax_password = ""
    /\ request.mapbox_key # "" /\ request.target_address # "" /\ request.max_attempts > 0
    /\ response = Some([error |-> "SOAX credentials not configured"])

\* the geocoder was called and returned no place
GeocodingFailed == PassedValidation /\ pc \notin {"start", "geocode"} /\ location = None

\* C14: if the geocoder returns no result or fails, the handler returns the
\* geocoding error; no credential is synthesized and no probe is dispatched.
C14_GeocodingErrorAborts ==
    GeocodingFailed =>
        /\ pc = "done"
        /\ response = Some([error |->
               "Could not geocode address. Please check the address format."])
        /\ all_proxies = << >>
        /\ submitted = << >> /\ Dispatched = {}
        /\ total_tested = 0

\* C14 witness: the geocoder had no answer for a request of several attempts
C14_Witness == GeocodingFailed /\ pc = "done" /\ request.max_attempts > 1

\* no credential was submitted twice, and no more probes were dispatched than
\* max_attempts
NoResubmission ==
    /\ \A m, n \in 1..Len(submitted) : submitted[m] = submitted[n] => m = n
    /\ Len(submitted) <= request.max_attempts
    /\ {submitted[n] : n \in 1..Len(submitted)} = Dispatched

\* C15: every credential is probed at most once: no credential is submitted
\* twice, a probe that ran is never run again, and the number of probes
\* dispatched in a request never exceeds max_attempts.
C15_ProbedAtMostOnce ==
    /\ NoResubmission
    /\ [][/\ NoResubmission'
          /\ \A i \in DOMAIN futures :
                /\ futures[i] = "FINISHED" => futures'[i] = "FINISHED"
                /\ (futures[i] = "RUNNING" /\ futures'[i] = "RUNNING") =>
                       submitted' = submitted]_vars

\* C15 witness: a second wave was dispatched after the first was observed
C15_Witness == Len(submitted) > 5 /\ total_tested >= 5 /\ InFlight # {}

\* C18: waves are strictly sequential: a probe of a later wave is dispatched
\* only after every probe of the earlier waves has finished and its verdict
\* was observed, and the probes in flight all belong to one wave.
C18_WavesSequential ==
    /\ \A i, j \in InFlight : WaveOf(i) = WaveOf(j)
    /\ \A i, j \in Dispatched :
          WaveOf(i) < WaveOf(j) =>
              /\ futures[i] = "FINISHED"
              /\ i \notin pending
              /\ \A n \in 1..Len(finished) : finished[n].future # i
              /\ total_tested >= 5 * (WaveOf(j) - 1)

\* C18 witness: probes of the second wave in flight
C18_Witness == \E j \in InFlight : WaveOf(j) = 2

\* C19: at most 5 probes are in flight at any moment, and every wave that is
\* dispatched has exactly 5 probes, except the last one of the batch, which
\* has the remaining 1 to 5.
C19_WavesOfFive ==
    /\ Cardinality(InFlight) <= 5
    /\ [][/\ Cardinality(InFlight') <= 5
          /\ submitted' # submitted =>
                LET wave == Len(submitted') - Len(submitted)
                IN  /\ wave \in 1..5
                    /\ wave = Cardinality(InFlight')
                    /\ wave # 5 => Len(submitted') = request.max_attempts]_vars

\* C19 witness: a full wave was observed and a last wave of one probe is in
\* flight
C19_Witness ==
    /\ Len(submitted) = 6 /\ request.max_attempts = 6
    /\ Cardinality(InFlight) = 1

\* C20: once an Accepted verdict has been observed, the siblings that
\* complete afterwards change nothing: the credential, the verdict fields
\* and attempts_used held for the return stay as they are, no further
\* verdict is observed, and what is returned is exactly what was held.
C20_LateSiblingsDiscarded ==
    [][ret # None =>
          /\ ret' = ret
          /\ total_tested' = total_tested
          /\ last_result' = last_result
          /\ Len(finished') >= Len(finished)
          /\ response' # response =>
                /\ response' = ret
                /\ response'[1].attempts_used = total_tested]_vars

\* C20 witness: the success outcome was returned while the verdict of a
\* sibling that completed Accepted afterwards was left unobserved
C20_Witness ==
    /\ Succeeded
    /\ \E n \in 1..Len(finished) : IsAccepted(finished[n].value[2])


\* the handler has returned, and not a request or configuration error
ReturnedOutcome == Succeeded \/ Exhausted

\* C16: provided every probe terminates, a request that passed the
\* configuration checks and geocoding eventually returns, and it returns
\* exactly one outcome: a success outcome with one credential or the
\* failure summary, which is never replaced afterwards.
C16_EventuallyOneOutcome ==
    /\ (pc = "build") ~> ReturnedOutcome
    /\ [][/\ response # None => response' = response
          /\ pc = "done" => pc' = "done"]_vars

\* C16 witness: the request returned after its second wave was dispatched
C16_Witness == ReturnedOutcome /\ Len(submitted) > 5


----------------------------------------------------------------------------
(* Properties of the outbound calls and the defaults of test_proxy, checked *)
(* under SpecProbe                                                          *)

\* the connection string has the form user:pass@host:port
WellFormed(s) ==
    \E k \in 1..(Len(s) - 1) : \E j \in 1..(k - 2) : \E i \in 2..(j - 2) :
        /\ s[i] = ":" /\ s[j] = "@" /\ s[k] = ":"
        /\ \A n \in (k + 1)..Len(s) : s[n] \in {"5000", "8080"}

\* how often the service was called in the probe
CallsTo(service) ==
    Cardinality({n \in 1..Len(probe_out[1].calls) : probe_out[1].calls[n] = service})

\* C23: the fallback IP-discovery service is called only after the primary
\* call has failed, and at most once; if both fail the verdict is the Error
\* "Connection timeout" and the IP-intelligence lookup is never issued.
C23_FallbackOnlyAfterPrimaryFailed ==
    (Probed /\ WellFormed(probe_in[1].proxy_string)) =>
        LET x == probe_in[1]
            calls == probe_out[1].calls
        IN  /\ CallsTo("ipify") = 1 /\ calls[1] = "ipify"
            /\ CallsTo("httpbin") = (IF x.net.ipify.raises THEN 1 ELSE 0)
            /\ x.net.ipify.raises => calls[2] = "httpbin"
            /\ (x.net.ipify.raises /\ x.net.httpbin.raises) =>
                  /\ probe_out[1].result = [success |-> FALSE, error |-> "Connection timeout"]
                  /\ CallsTo("ip-api") = 0

\* C23 witness: both IP-discovery services failed
C23_Witness ==
    /\ Probed /\ WellFormed(probe_in[1].proxy_string)
    /\ probe_in[1].net.ipify.raises /\ probe_in[1].net.httpbin.raises
    /\ probe_out[1].calls = <<"ipify", "httpbin">>

\* C24 as stated: every probe on a well-formed connection string makes at
\* least two and at most three outbound calls.
C24_TwoToThreeCalls ==
    (Probed /\ WellFormed(probe_in[1].proxy_string)) =>
        Len(probe_out[1].calls) \in 2..3

\* the primary service answered, with an empty or null IP
PrimaryAnsweredEmpty(x) == ~x.net.ipify.raises /\ x.net.ipify.ip \in {None, Some("")}

\* C24 amended: every probe on a well-formed connection string makes at
\* least one and at most three outbound calls; it makes one call only when
\* the primary service answers with an empty IP, and two or three otherwise.
C24_OneToThreeCalls ==
    (Probed /\ WellFormed(probe_in[1].proxy_string)) =>
        /\ Len(probe_out[1].calls) \in 1..3
        /\ Len(probe_out[1].calls) = 1 <=> PrimaryAnsweredEmpty(probe_in[1])
        /\ Len(probe_out[1].calls) = 3 =>
              probe_out[1].calls = <<"ipify", "httpbin", "ip-api">>

\* C24 witness: a probe of three calls
C24_Witness ==
    /\ Probed /\ WellFormed(probe_in[1].proxy_string)
    /\ Len(probe_out[1].calls) = 3

\* the case C24 as stated gets wrong: a probe of one call
C24_WitnessOneCall ==
    /\ Probed /\ WellFormed(probe_in[1].proxy_string)
    /\ probe_out[1].calls = <<"ipify">>

\* C25: a connection string that is not of the form user:pass@host:port
\* makes the probe return the Error "Invalid proxy format" before any
\* outbound call.
C25_MalformedStringNoCall ==
    (Probed /\ ~WellFormed(probe_in[1].proxy_string)) =>
        /\ probe_out[1].result = [success |-> FALSE, error |-> "Invalid proxy format"]
        /\ probe_out[1].calls = << >>

\* C25 witness: a string whose port is not a number, all services reachable
C25_Witness ==
    /\ Probed
    /\ probe_in[1].proxy_string = <<"user", ":", "pw", "@", "proxy.soax.com", ":", "http">>
    /\ ~probe_in[1].net.ipify.raises /\ ~probe_in[1].net.ipapi.raises
    /\ IsError(probe_out[1].result)

\* C26: a successful IP-intelligence response with missing or null fields
\* still yields a Rejected or Accepted verdict, in which every text field
\* is the provider's text or "Unknown" and every coordinate the provider's
\* number or 0; a missing mobile flag counts as not mobile.
C26_DefaultsNeverNull ==
    (Probed /\ ExitIpDiscovered(probe_in[1]) /\ LookupSucceeded(probe_in[1])) =>
        LET data == probe_in[1].net.ipapi.data
            r == probe_out[1].result
        IN  /\ IsRejected(r) \/ IsAccepted(r)
            /\ r.city = TextOrUnknown(data.city)
            /\ r.region = TextOrUnknown(data.regionName)
            /\ r.country = TextOrUnknown(data.country)
            /\ r.isp = TextOrUnknown(data.isp)
            /\ r.org = TextOrUnknown(data.org)
            /\ r.as_name = TextOrUnknown(data.as)
            /\ r.lat = NumberOrZero(data.lat)
            /\ r.lon = NumberOrZero(data.lon)
            /\ r.distance = ReportedDistance(probe_in[1])
            /\ r.ip \in {"203.0.113.9", "198.51.100.4"}
            /\ r.org # "" /\ r.isp # "" /\ r.as_name # ""
            /\ (data.mobile = None /\ ~TooFar(probe_in[1]) /\ ~DenyListed(probe_in[1])
                   /\ ~IspNamedMobile(probe_in[1])
                   /\ ~NameHasAny(TextOrUnknown(data.as), mobile_keywords \cup mobile_carriers))
                 => IsAccepted(r)

\* C26 witness: an answer without coordinates, ISP, AS name and mobile flag;
\* the verdict is computed from the defaults
C26_Witness ==
    /\ Probed /\ ExitIpDiscovered(probe_in[1]) /\ LookupSucceeded(probe_in[1])
    /\ probe_in[1].net.ipapi.data.lat = None /\ probe_in[1].net.ipapi.data.lon = None
    /\ probe_in[1].net.ipapi.data.isp = None /\ probe_in[1].net.ipapi.data.as = None
    /\ probe_in[1].net.ipapi.data.mobile = None
    /\ IsAccepted(probe_out[1].result)
    /\ probe_out[1].result.isp = "Unknown" /\ probe_out[1].result.lat = 0

\* C30: if the primary IP-discovery call answers with an empty IP, the
\* verdict is the Error "Could not get proxy IP"; the fallback service and
\* the IP-intelligence provider are not called.
C30_EmptyIpNoFallback ==
    (Probed /\ WellFormed(probe_in[1].proxy_string)
        /\ PrimaryAnsweredEmpty(probe_in[1])) =>
        /\ probe_out[1].result = [success |-> FALSE, error |-> "Could not get proxy IP"]
        /\ probe_out[1].calls = <<"ipify">>

\* C30 witness: the primary service answered the empty text while the
\* fallback service would have supplied an IP
C30_Witness ==
    /\ Probed /\ WellFormed(probe_in[1].proxy_string)
    /\ probe_in[1].net.ipify = [raises |-> FALSE, ip |-> Some("")]
    /\ ~probe_in[1].net.httpbin.raises /\ probe_in[1].net.httpbin.origin[1] # ""
    /\ IsError(probe_out[1].result)


----------------------------------------------------------------------------
(* Properties of the diagnostic state and of the batch, checked under Spec *)

\* the snapshot the failure outcome takes of verdict v: absent keys are null
Snapshot(v) ==
    [ip |-> IF "ip" \in DOMAIN v THEN Some(v.ip) ELSE None,
     city |-> IF "city" \in DOMAIN v THEN Some(v.city) ELSE None,
     region |-> IF "region" \in DOMAIN v THEN Some(v.region) ELSE None,
     isp |-> IF "isp" \in DOMAIN v THEN Some(v.isp) ELSE None,
     distance |-> IF "distance" \in DOMAIN v THEN Some(v.distance) ELSE None]

\* the failure outcome's snapshot is that of the verdict held in last_result,
\* all null when that verdict is an Error
SnapshotOfLastObserved ==
    (Exhausted /\ last_result # None) =>
        /\ response[1].last_result = Some(Snapshot(last_result[1]))
        /\ IsError(last_result[1]) =>
              response[1].last_result =
                  Some([ip |-> None, city |-> None, region |-> None,
                        isp |-> None, distance |-> None])
        /\ ~IsError(last_result[1]) =>
              /\ response[1].last_result[1].ip # None
              /\ response[1].last_result[1].distance # None

\* C21: every observed verdict, Error included, overwrites the last-observed
\* diagnostic state, and on exhaustion the failure snapshot is taken from
\* the most recently observed verdict: all its fields are null when that
\* verdict is an Error.
C21_LastObservedOverwritten ==
    /\ SnapshotOfLastObserved
    /\ [][/\ SnapshotOfLastObserved'
          /\ total_tested' # total_tested =>
                /\ finished # << >>
                /\ last_result' = Some(finished[1].value[2])]_vars

\* C21 witness: exhaustion of a batch of several probes whose last observed
\* verdict was an Error: the snapshot has null fields only
C21_Witness ==
    /\ Exhausted /\ response[1].attempts >= 2
    /\ IsError(last_result[1])
    /\ response[1].last_result[1].ip = None /\ response[1].last_result[1].city = None

\* C22: last_result, last_fail_reasons and total_tested are written only by
\* the request's loop when it takes a verdict from the finished list; a step
\* in which a probe completes writes none of them.
C22_SingleWriter ==
    [][(\/ total_tested' # total_tested
        \/ last_result' # last_result
        \/ last_fail_reasons' # last_fail_reasons) =>
          /\ pc = "as_completed"
          /\ futures' = futures
          /\ Len(finished') = Len(finished) - 1]_vars

\* C22 witness: a probe has completed with a verdict of its own while the
\* diagnostic state still holds the verdict observed before
C22_Witness ==
    /\ pc = "as_completed" /\ finished # << >> /\ last_result # None
    /\ IsRejected(finished[Len(finished)].value[2]) /\ IsError(last_result[1])

\* the credential targets the geocoded place: country us, region florida,
\* city miami, with the session lifetime of an hour
Targeted(c) ==
    /\ c.username = "package-" \o config.soax_package_id
                    \o "-country-us-region-florida-city-miami-sessionid-"
                    \o c.session_id \o "-sessionlength-3600"
    /\ c.password = config.soax_password
    /\ c.full_string = <<c.username, ":", c.password, "@", "proxy.soax.com", ":", "5000">>
    /\ c.server = "proxy.soax.com" /\ c.port = "5000" /\ c.provider = "SOAX"

\* C27: when the first probe is dispatched the whole batch of max_attempts
\* credentials exists; all credentials carry the targeting of the geocoded
\* address and differ in their session id only.
C27_BatchSynthesizedUpFront ==
    /\ submitted # << >> =>
          /\ Len(all_proxies) = request.max_attempts
          /\ location # None
          /\ location[1].region = "Florida" /\ location[1].city = "Miami"
    /\ \A i \in DOMAIN all_proxies : Targeted(all_proxies[i])

\* C27 witness: the first wave is in flight while the credential of the
\* second wave exists already
C27_Witness ==
    /\ Len(submitted) = 5 /\ InFlight # {}
    /\ Len(all_proxies) = 6 /\ futures[6] = "NOT_SUBMITTED"

\* C29: last_fail_reasons and last_result describe the same verdict: the
\* reasons are the message of the Error verdict held in last_result, or the
\* fail reasons of the Rejected or Accepted verdict held there, and both
\* are empty before the first observation.
C29_ReasonsAndVerdictOfOneProbe ==
    /\ last_result = None => (last_fail_reasons = << >> /\ total_tested = 0)
    /\ last_result # None =>
          /\ total_tested > 0
          /\ last_fail_reasons =
                (IF IsError(last_result[1]) THEN <<last_result[1].error>>
                 ELSE last_result[1].fail_reasons)

\* C29 witness: an Error verdict was observed after other verdicts
C29_Witness ==
    /\ pc = "as_completed" /\ total_tested >= 2
    /\ last_result # None /\ IsError(last_result[1])
    /\ last_fail_reasons = <<"ip-api error: invalid query">>


----------------------------------------------------------------------------
(* Properties of build_soax_proxy, checked under SpecBuild *)

\* a place or country name in the provider's form: lower-cased, '+' for ' '
ProviderForm(t) ==
    CASE t = "us" -> "us"
      [] t = "US" -> "us"
      [] t = "Florida" -> "florida"
      [] t = "Miami" -> "miami"
      [] t = "South Beach" -> "south+beach"

\* the username the provider expects for the arguments a
ExpectedUsername(a) ==
    "package-" \o a.package_id
    \o "-country-" \o ProviderForm(a.country)
    \o (IF a.region = "" THEN "" ELSE "-region-" \o ProviderForm(a.region))
    \o (IF a.city = "" THEN "" ELSE "-city-" \o ProviderForm(a.city))
    \o "-sessionid-" \o a.session_id
    \o "-sessionlength-" \o (IF a.session_length = 3600 THEN "3600" ELSE "600")

\* C28: for a given country, the username build_soax_proxy returns joins
\* with '-' the package id, the lower-cased country, the region and the
\* city (each only if non-empty, lower-cased, ' ' replaced by '+'), the
\* session id and the session lifetime, in this order; the full string is
\* username:password@proxy.soax.com:5000 with that username and password.
C28_UsernameFieldsInOrder ==
    (Probed /\ pc = "synth" /\ probe_in[1].country # "") =>
        /\ probe_out[1].username = ExpectedUsername(probe_in[1])
        /\ probe_out[1].password = probe_in[1].password
        /\ probe_out[1].session_id = probe_in[1].session_id
        /\ probe_out[1].full_string =
              <<ExpectedUsername(probe_in[1]), ":", probe_in[1].password, "@",
                "proxy.soax.com", ":", "5000">>
        /\ probe_out[1].server = "proxy.soax.com" /\ probe_out[1].port = "5000"

\* C28 witness: package p1, country us, region South Beach, city Miami
C28_Witness ==
    /\ Probed /\ pc = "synth"
    /\ probe_in[1].region = "South Beach" /\ probe_in[1].city = "Miami"
    /\ probe_out[1].username =
          "package-p1-country-us-region-south+beach-city-miami-sessionid-sid1-sessionlength-3600"

\* a second case of C28: upper-case country, no region
C28_WitnessNoRegion ==
    /\ Probed /\ pc = "synth"
    /\ probe_in[1].country = "US" /\ probe_in[1].region = "" /\ probe_in[1].city = "South Beach"
    /\ probe_out[1].username =
          "package-p2-country-us-city-south+beach-sessionid-sid2-sessionlength-600"

----------------------------------------------------------------------------
(* The empty batch, checked under Spec *)

\* the request asks for no attempt at all
EmptyBatch == request.max_attempts = 0

\* C31: with max_attempts equal to 0 no probe is ever dispatched, and once
\* the address is geocoded the handler returns the failure outcome with
\* attempts 0, an empty last_fail_reasons list and a null last_result.
C31_EmptyBatchFailsWithoutProbe ==
    EmptyBatch =>
        /\ submitted = << >> /\ pending = {} /\ finished = << >>
        /\ all_proxies = << >> /\ futures = << >>
        /\ pc \notin {"as_completed", "exit_with"}
        /\ (pc = "done" /\ location # None) =>
              response = Some([error |-> "Could not find a proxy within 5 miles after 0 attempts.",
                               attempts |-> 0,
                               last_fail_reasons |-> << >>,
                               last_result |-> None])

\* C31 witness: a valid request with max_attempts 0 was geocoded and the
\* handler returned
C31_Witness ==
    /\ EmptyBatch /\ pc = "done" /\ location # None
    /\ response # None /\ submitted = << >>

====
